---- MODULE Spec2Model ----
(***************************************************************************)
(* Coordinator of the cloud-gaming service: one signaling connection, the *)
(* session it starts (startSession in coordinator/app/apps/apps.go) and   *)
(* the WebRTC bridge of that session (coordinator/app/webrtc/webrtc.go):  *)
(* the exit latch (sync.Once), the health-check worker, the ICE state     *)
(* callbacks, the teardown callback onExitCb and the app-input handler.   *)
(***************************************************************************)
EXTENDS Integers, Sequences, FiniteSets, TLC

(* ------------------------------ bounds -------------------------------- *)
\* number of ICE connection state changes the library reports
MaxIceEvents == 2
\* number of health-check messages a peer that goes silent sends (Spec)
MaxHealthMsgs == 2
\* number of local ICE candidates the library emits
MaxCandidates == 1
\* number of START messages on the connection
MaxStarts == 2
\* number of RTP packets the sandbox sends
MaxPackets == 2
\* number of NewWebRTC calls in the process
MaxCalls == 2
\* length of a codec name
MaxCodecLen == 4
\* ephemeral ports the OS hands out
MaxPort == 3

(* ------------------------- program constants -------------------------- *)
\* webrtc.go:53  const MaxMissedHealthCheck int = 5
MaxMissedHealthCheckSlow == 5 + 1
MaxMissedHealthCheck == 5
\* apps.go:147  inputStream := make(chan *webrtc.Packet, 100)
QueueCap == 100

Kinds == {"video", "audio", "wine"}
Queues == {"video", "audio", "input"}
IceStates == {"Connected", "Failed", "Closed", "Disconnected"}
IceTerminal == {"Failed", "Closed", "Disconnected"}
\* the input events the web client sends (VideoStream/index.js)
InputEvents == {"MOUSEDOWN"}

\* goroutine identities for the holder of exitOnce's mutex:
\* 1..MaxIceEvents are the ICE state callbacks
Free == -1
Worker == 0

VARIABLES
  ssPc,        \* position of the signaling goroutine in NewSession/startSession
  failedAt,    \* step of startSession that returned the error ("none" if none)
  sock,        \* listener of each kind: "none", "open", "closed"
  queueClosed, \* for each of the three channels: close() was called on it
  relayer,     \* "none", "started", "closed"
  vmStarted,   \* startVM returned nil
  vmStops,     \* number of stopVM(id) calls
  webrtcConn,  \* NewSession's webrtcConn: "nil" or "set"
  offerSent,   \* sendOffer returned nil
  sigClosed,   \* conn.ReadText returned an error: the signaling loop returned
  hcPc,        \* health-check worker: "none","select","sleep","do","exit","returned"
  missed,      \* missedHealthCheckCounts
  lockHeld,    \* lock (sync.Mutex of addHealthCheck) is held
  hmBlocked,   \* a health-check OnMessage handler is blocked in lock.Lock()
  silent,      \* full 2s sleeps completed since StartClient / the last message
  partial,     \* the sleep in progress began before the last message
  hcLeft,      \* health-check messages the peer still sends before going silent
  keepAlive,   \* the peer never stops sending health-check messages
  onceM,       \* goroutine inside exitOnce.Do (holder of the Once mutex)
  onceDone,    \* exitOnce.done
  exitStarts,  \* number of times the body of onExitCb began
  exitPc,      \* position inside onExitCb
  connClosed,  \* StopClient closed the peer connection and the data channels
  stopClientReturned,
  ice,         \* ICE state callbacks so far: sequence of [state, pc]
  streams,     \* number of startStreaming calls
  inputStream, \* contents of the input channel
  inputPc,     \* app-input OnMessage handler: "idle", "send", "panic"
  port,        \* port the OS bound to the listener of each kind (0: none)
  relayPort,   \* videoRelayPort, audioRelayPort, winePort of startSession
  vmArgs,      \* positional arguments of the last ./startVM.sh launch
  wire,        \* types of the messages sent on the signaling connection
  candLeft,    \* local ICE candidates the library has still to emit
  lastMsg,     \* type of the last signaling message the loop read
  lastDispatch, \* what the loop did with it
  protoErr,    \* SetRemoteSDP or AddCandidate of this bridge returned an error
  starts,      \* START messages handled on this connection
  prevLive,    \* the session of the previous START was live at the last START
  mediaQ,      \* contents of videoStream and audioStream
  produced,    \* RTP packets the relayer readers have enqueued
  drains,      \* drain goroutines started by startStreaming: [q, pc, pkt]
  track,       \* WriteRTP calls on the video and the audio track, in order
  nwPc,        \* position of each NewWebRTC call (SettingSpec)
  nwConf,      \* the Config each call was given
  nwUsed,      \* the settings each call handed to webrtc.NewAPI
  settings,    \* the package variable settings
  settingM,    \* caller inside settingOnce.Do
  settingDone, \* settingOnce.done
  firstConf,   \* Config of the first call that entered settingOnce.Do
  vCodec,      \* argument of verbalCodecToMime (CodecSpec)
  mime         \* its result

sessVars == <<ssPc, failedAt, vmStarted, webrtcConn, offerSent, sigClosed>>
resVars  == <<sock, queueClosed, relayer>>
hcVars   == <<hcPc, missed, lockHeld, hmBlocked, silent, partial, hcLeft, keepAlive>>
onceVars == <<onceM, onceDone, exitStarts>>
exitVars == <<exitPc, vmStops, connClosed, stopClientReturned>>
iceVars  == <<ice, streams>>
inVars   == <<inputStream, inputPc>>
portVars  == <<port, relayPort, vmArgs>>
wireVars  == <<wire, candLeft, lastMsg, lastDispatch, protoErr>>
startVars == <<starts, prevLive>>
drainVars == <<mediaQ, produced, drains, track>>
settingVars == <<nwPc, nwConf, nwUsed, settings, settingM, settingDone, firstConf>>
codecVars == <<vCodec, mime>>
extVars == <<portVars, wireVars, startVars, drainVars, settingVars, codecVars>>
vars == <<sessVars, resVars, hcVars, onceVars, exitVars, iceVars, inVars, extVars>>

\* the zero value of webrtc.SettingEngine (webrtc.go:49)
ZeroSettings == [range |-> <<0, 0>>, mux |-> 0, nat |-> ""]

\* nwUsed of a call that has not reached webrtc.NewAPI
NoSettings == [range |-> <<-1, -1>>, mux |-> -1, nat |-> "none"]

\* the Config values NewWebRTC is called with (webrtc.go:40-45);
\* DisableDefaultInterceptors only decides whether a second registration
\* that may fail is attempted, and is left out of the record
Configs ==
  [Min : 0..2, Max : 0..1, SinglePort : 0..1, IceIpMap : {"", "ip"}]

\* nwConf of a call that has not begun
NoConfig ==
  [Min |-> -1, Max |-> -1, SinglePort |-> -1, IceIpMap |-> "none"]

Media == {"video", "audio"}

InitExtFor(v) ==
  /\ port = [k \in Kinds |-> 0] /\ relayPort = [k \in Kinds |-> 0]
  /\ vmArgs = <<>>
  /\ wire = <<>> /\ candLeft = MaxCandidates
  /\ lastMsg = "none" /\ lastDispatch = "none" /\ protoErr = FALSE
  /\ starts = 0 /\ prevLive = FALSE
  /\ mediaQ = [q \in Media |-> <<>>] /\ produced = 0
  /\ drains = <<>> /\ track = [q \in Media |-> <<>>]
  /\ nwPc = [c \in 1..MaxCalls |-> "idle"]
  /\ nwConf = [c \in 1..MaxCalls |-> NoConfig]
  /\ nwUsed = [c \in 1..MaxCalls |-> NoSettings]
  /\ settings = ZeroSettings /\ settingM = 0 /\ settingDone = FALSE
  /\ firstConf = NoConfig
  /\ vCodec = v /\ mime = "none"

InitExt == InitExtFor(<<>>)

InitCommonFor(v) ==
  /\ InitExtFor(v)
  /\ ssPc = "idle" /\ failedAt = "none"
  /\ sock = [k \in Kinds |-> "none"]
  /\ queueClosed = [q \in Queues |-> FALSE]
  /\ relayer = "none"
  /\ vmStarted = FALSE /\ vmStops = 0
  /\ webrtcConn = "nil" /\ offerSent = FALSE /\ sigClosed = FALSE
  /\ hcPc = "none" /\ missed = 0 /\ lockHeld = FALSE /\ hmBlocked = FALSE
  /\ silent = 0 /\ partial = FALSE
  /\ hcLeft = MaxHealthMsgs
  /\ onceM = Free /\ onceDone = FALSE /\ exitStarts = 0
  /\ exitPc = "idle" /\ connClosed = FALSE /\ stopClientReturned = FALSE
  /\ ice = <<>> /\ streams = 0
  /\ inputStream = <<>> /\ inputPc = "idle"

InitCommon == InitCommonFor(<<>>)

Init == InitCommon /\ keepAlive = FALSE

(* ----------------------- NewSession / startSession -------------------- *)
\* the steps of startSession in program order (apps.go:149-251)
StartSteps ==
  <<"videoListen", "videoPort", "audioListen", "audioPort", "wineListen",
    "winePort", "relayerStart", "startVM", "NewWebRTC", "StartClient",
    "createOffer", "sendOffer">>

StepIndex(s) == CHOOSE i \in 1..Len(StartSteps) : StartSteps[i] = s

AfterStart(s) ==
  IF StepIndex(s) = Len(StartSteps) THEN "done" ELSE StartSteps[StepIndex(s) + 1]

\* `return nil, err`: startSession returns without releasing anything, and
\* NewSession sets webrtcConn = nil (apps.go:289-292)
ReturnErr(s) ==
  /\ ssPc' = "failed"
  /\ failedAt' = s
  /\ webrtcConn' = "nil"

\* case constants.StartMessage (apps.go:287-288); the queues are made first
RecvStart ==
  /\ ssPc = "idle" /\ ~sigClosed
  /\ ssPc' = StartSteps[1]
  /\ starts' = starts + 1
  /\ lastMsg' = "START" /\ lastDispatch' = "startSession"
  /\ UNCHANGED <<failedAt, vmStarted, webrtcConn, offerSent, sigClosed>>
  /\ UNCHANGED <<resVars, hcVars, onceVars, exitVars, iceVars, inVars>>
  /\ UNCHANGED <<wire, candLeft, protoErr, prevLive>>
  /\ UNCHANGED <<portVars, drainVars, settingVars, codecVars>>

\* the ports the OS can still hand out: none that a listener is bound to
FreePorts == (1..MaxPort) \ {port[k] : k \in Kinds}

\* listener.LocalAddr() / Addr(): the address the listener of kind k is bound to
LocalAddr(k) == [ip |-> "0.0.0.0", port |-> port[k]]

\* socket.ExtractPort: the port number of an address
PortOf(addr) == addr.port

\* socket.NewRandomUDPListener / NewRandomTCPListener (apps.go:149,159,169)
Listen(step, k) ==
  /\ ssPc = step
  /\ \/ \E p \in FreePorts :
          /\ sock' = [sock EXCEPT ![k] = "open"]
          /\ port' = [port EXCEPT ![k] = p]
          /\ ssPc' = AfterStart(step)
          /\ UNCHANGED <<failedAt, webrtcConn>>
     \/ /\ ReturnErr(step)
        /\ UNCHANGED <<sock, port>>
  /\ UNCHANGED <<vmStarted, offerSent, sigClosed, queueClosed, relayer>>
  /\ UNCHANGED <<hcVars, onceVars, exitVars, iceVars, inVars>>
  /\ UNCHANGED <<relayPort, vmArgs>>
  /\ UNCHANGED <<wireVars, startVars, drainVars, settingVars, codecVars>>

\* socket.ExtractPort (apps.go:154,164,174)
ExtractPort(step, k) ==
  /\ ssPc = step
  /\ \E ok \in BOOLEAN :
       IF ok
       THEN /\ relayPort' = [relayPort EXCEPT ![k] = PortOf(LocalAddr(k))]
            /\ ssPc' = AfterStart(step)
            /\ UNCHANGED <<failedAt, webrtcConn>>
       ELSE /\ ReturnErr(step)
            /\ UNCHANGED relayPort
  /\ UNCHANGED <<vmStarted, offerSent, sigClosed>>
  /\ UNCHANGED <<resVars, hcVars, onceVars, exitVars, iceVars, inVars>>
  /\ UNCHANGED <<port, vmArgs>>
  /\ UNCHANGED <<wireVars, startVars, drainVars, settingVars, codecVars>>

VideoListen == Listen("videoListen", "video")
VideoPort   == ExtractPort("videoPort", "video")
AudioListen == Listen("audioListen", "audio")
AudioPort   == ExtractPort("audioPort", "audio")
WineListen  == Listen("wineListen", "wine")
WinePort    == ExtractPort("winePort", "wine")

\* relayer.Start() (apps.go:184-191)
RelayerStart ==
  /\ ssPc = "relayerStart"
  /\ \E ok \in BOOLEAN :
       IF ok
       THEN /\ relayer' = "started"
            /\ ssPc' = AfterStart("relayerStart")
            /\ UNCHANGED <<failedAt, webrtcConn>>
       ELSE /\ ReturnErr("relayerStart")
            /\ UNCHANGED relayer
  /\ UNCHANGED <<vmStarted, offerSent, sigClosed, sock, queueClosed>>
  /\ UNCHANGED <<hcVars, onceVars, exitVars, iceVars, inVars>>
  /\ UNCHANGED extVars

\* sessionId := r.RemoteAddr (apps.go:260)
SessionId == "peer"

\* params of ./startVM.sh: id, then the video, audio and wine port
\* (apps.go:104-109, called at apps.go:194)
VmArgsAudioFirst(id, rp) == <<id, rp["audio"], rp["video"], rp["wine"]>>
VmArgs(id, rp) == <<id, rp["video"], rp["audio"], rp["wine"]>>

\* startVM(id, videoRelayPort, audioRelayPort, winePort) (apps.go:194-197)
StartVM ==
  /\ ssPc = "startVM"
  /\ vmArgs' = VmArgs(SessionId, relayPort)
  /\ \E ok \in BOOLEAN :
       IF ok
       THEN /\ vmStarted' = TRUE
            /\ ssPc' = AfterStart("startVM")
            /\ UNCHANGED <<failedAt, webrtcConn>>
       ELSE /\ ReturnErr("startVM")
            /\ UNCHANGED vmStarted
  /\ UNCHANGED <<offerSent, sigClosed>>
  /\ UNCHANGED <<resVars, hcVars, onceVars, exitVars, iceVars, inVars>>
  /\ UNCHANGED <<port, relayPort>>
  /\ UNCHANGED <<wireVars, startVars, drainVars, settingVars, codecVars>>

\* webrtc.NewWebRTC (apps.go:204-210)
NewWebRTC ==
  /\ ssPc = "NewWebRTC"
  /\ \E ok \in BOOLEAN :
       IF ok
       THEN ssPc' = AfterStart("NewWebRTC") /\ UNCHANGED <<failedAt, webrtcConn>>
       ELSE ReturnErr("NewWebRTC")
  /\ UNCHANGED <<vmStarted, offerSent, sigClosed>>
  /\ UNCHANGED <<resVars, hcVars, onceVars, exitVars, iceVars, inVars>>
  /\ UNCHANGED extVars

\* StartClient up to and including addHealthCheck (webrtc.go:117-154): the
\* tracks, addInputTrack or CreateDataChannel may fail; otherwise the
\* health-check worker goroutine is started (webrtc.go:227)
StartClient ==
  /\ ssPc = "StartClient"
  /\ \E ok \in BOOLEAN :
       IF ok
       THEN /\ hcPc' = "select"
            /\ ssPc' = AfterStart("StartClient")
            /\ UNCHANGED <<failedAt, webrtcConn>>
       ELSE /\ ReturnErr("StartClient")
            /\ UNCHANGED hcPc
  /\ UNCHANGED <<vmStarted, offerSent, sigClosed>>
  /\ UNCHANGED <<missed, lockHeld, hmBlocked, silent, partial, hcLeft, keepAlive>>
  /\ UNCHANGED <<resVars, onceVars, exitVars, iceVars, inVars>>
  /\ UNCHANGED extVars

\* the rest of StartClient (webrtc.go:156-195): the ICE handlers are
\* registered, then CreateOffer, SetLocalDescription or EncodeBase64 may fail
CreateOffer ==
  /\ ssPc = "createOffer"
  /\ \E ok \in BOOLEAN :
       IF ok
       THEN ssPc' = AfterStart("createOffer") /\ UNCHANGED <<failedAt, webrtcConn>>
       ELSE ReturnErr("createOffer")
  /\ UNCHANGED <<vmStarted, offerSent, sigClosed>>
  /\ UNCHANGED <<resVars, hcVars, onceVars, exitVars, iceVars, inVars>>
  /\ UNCHANGED extVars

\* sendOffer(wsConn, offer) and `return webrtcConn, nil` (apps.go:245-251)
SendOffer ==
  /\ ssPc = "sendOffer"
  /\ \E ok \in BOOLEAN :
       IF ok
       THEN /\ ssPc' = AfterStart("sendOffer")
            /\ offerSent' = TRUE
            /\ wire' = Append(wire, "SDP")
            /\ webrtcConn' = "set"
            /\ UNCHANGED failedAt
       ELSE /\ ReturnErr("sendOffer")
            /\ UNCHANGED <<offerSent, wire>>
  /\ UNCHANGED <<vmStarted, sigClosed>>
  /\ UNCHANGED <<resVars, hcVars, onceVars, exitVars, iceVars, inVars>>
  /\ UNCHANGED <<candLeft, lastMsg, lastDispatch, protoErr>>
  /\ UNCHANGED <<portVars, startVars, drainVars, settingVars, codecVars>>

\* conn.ReadText returns an error: NewSession returns, the deferred
\* conn.Close() closes the web socket and nothing else (apps.go:267-278)
SignalingClose ==
  /\ ssPc \in {"idle", "done", "failed"} /\ ~sigClosed
  /\ sigClosed' = TRUE
  /\ UNCHANGED <<ssPc, failedAt, vmStarted, webrtcConn, offerSent>>
  /\ UNCHANGED <<resVars, hcVars, onceVars, exitVars, iceVars, inVars>>
  /\ UNCHANGED extVars

StartNext ==
  \/ RecvStart \/ VideoListen \/ VideoPort \/ AudioListen \/ AudioPort
  \/ WineListen \/ WinePort \/ RelayerStart \/ StartVM \/ NewWebRTC
  \/ StartClient \/ CreateOffer \/ SendOffer \/ SignalingClose

(* ------------- the signaling loop after START (apps.go:269-311) ------- *)
\* the loop is in conn.ReadText
AtReadText == ssPc \in {"idle", "done", "failed"} /\ ~sigClosed

\* case constants.SDPMessage: skipped while webrtcConn is nil; an error of
\* SetRemoteSDP sets webrtcConn = nil (apps.go:293-301)
RecvSDP ==
  /\ AtReadText
  /\ lastMsg' = "SDP"
  /\ IF webrtcConn = "nil"
     THEN /\ lastDispatch' = "skipped"
          /\ UNCHANGED <<webrtcConn, protoErr>>
     ELSE /\ lastDispatch' = "SetRemoteSDP"
          /\ \E ok \in BOOLEAN :
               IF ok THEN UNCHANGED <<webrtcConn, protoErr>>
                     ELSE webrtcConn' = "nil" /\ protoErr' = TRUE
  /\ UNCHANGED <<ssPc, failedAt, vmStarted, offerSent, sigClosed>>
  /\ UNCHANGED <<resVars, hcVars, onceVars, exitVars, iceVars, inVars>>
  /\ UNCHANGED <<wire, candLeft>>
  /\ UNCHANGED <<portVars, startVars, drainVars, settingVars, codecVars>>

\* case constants.IceCandidateMessage: skipped while webrtcConn is nil; an
\* error of AddCandidate is only logged (apps.go:302-309)
RecvICE ==
  /\ AtReadText
  /\ lastMsg' = "ICE"
  /\ IF webrtcConn = "nil"
     THEN /\ lastDispatch' = "skipped"
          /\ UNCHANGED protoErr
     ELSE /\ lastDispatch' = "AddCandidate"
          /\ \E ok \in BOOLEAN : protoErr' = (protoErr \/ ~ok)
  /\ UNCHANGED <<sessVars, resVars, hcVars, onceVars, exitVars, iceVars, inVars>>
  /\ UNCHANGED <<wire, candLeft>>
  /\ UNCHANGED <<portVars, startVars, drainVars, settingVars, codecVars>>

\* a frame that does not parse (apps.go:281-284) or has another type: the
\* switch has no case for it
RecvOther ==
  /\ AtReadText
  /\ lastMsg' = "other" /\ lastDispatch' = "ignored"
  /\ UNCHANGED <<sessVars, resVars, hcVars, onceVars, exitVars, iceVars, inVars>>
  /\ UNCHANGED <<wire, candLeft, protoErr>>
  /\ UNCHANGED <<portVars, startVars, drainVars, settingVars, codecVars>>

\* SetLocalDescription returned (webrtc.go:185): the library gathers
\* candidates from here on
LocalDescriptionSet ==
  \/ ssPc \in {"sendOffer", "done"}
  \/ ssPc = "failed" /\ failedAt = "sendOffer"

\* OnICECandidate with a non-nil candidate (webrtc.go:168-177), run by the
\* library's goroutine: encode it, then onIceCandidateCb sends it with
\* sendIceCandidate (apps.go:212-217); either may fail and is only logged
LocalCandidate ==
  /\ LocalDescriptionSet /\ ~connClosed
  /\ candLeft > 0
  /\ candLeft' = candLeft - 1
  /\ \E encoded \in BOOLEAN, sent \in BOOLEAN :
       wire' = IF encoded /\ sent THEN Append(wire, "ICE") ELSE wire
  /\ UNCHANGED <<sessVars, resVars, hcVars, onceVars, exitVars, iceVars, inVars>>
  /\ UNCHANGED <<lastMsg, lastDispatch, protoErr>>
  /\ UNCHANGED <<portVars, startVars, drainVars, settingVars, codecVars>>

\* the session of the latest START completed START and its teardown has not
\* completed
SessionLive == ssPc = "done" /\ exitPc # "done"

\* a further START on the same connection: startSession is called again
\* with the same sessionId and fresh local variables (apps.go:287-288). From
\* here on the session variables describe the session of this START; of the
\* earlier one only prevLive is kept.
RecvStartAgain ==
  /\ ssPc \in {"done", "failed"} /\ ~sigClosed
  /\ starts < MaxStarts
  /\ starts' = starts + 1
  /\ prevLive' = (prevLive \/ SessionLive)
  /\ lastMsg' = "START" /\ lastDispatch' = "startSession"
  /\ protoErr' = FALSE
  /\ ssPc' = StartSteps[1] /\ failedAt' = "none"
  /\ vmStarted' = FALSE /\ offerSent' = FALSE
  /\ sock' = [k \in Kinds |-> "none"]
  /\ queueClosed' = [q \in Queues |-> FALSE]
  /\ relayer' = "none"
  /\ hcPc' = "none" /\ missed' = 0 /\ lockHeld' = FALSE /\ hmBlocked' = FALSE
  /\ silent' = 0 /\ partial' = FALSE
  /\ onceM' = Free /\ onceDone' = FALSE /\ exitStarts' = 0
  /\ exitPc' = "idle" /\ vmStops' = 0
  /\ connClosed' = FALSE /\ stopClientReturned' = FALSE
  /\ ice' = <<>> /\ streams' = 0
  /\ inputStream' = <<>> /\ inputPc' = "idle"
  /\ port' = [k \in Kinds |-> 0] /\ relayPort' = [k \in Kinds |-> 0]
  /\ vmArgs' = <<>>
  /\ mediaQ' = [q \in Media |-> <<>>] /\ produced' = 0
  /\ drains' = <<>> /\ track' = [q \in Media |-> <<>>]
  /\ UNCHANGED <<webrtcConn, sigClosed, hcLeft, keepAlive, wire, candLeft>>
  /\ UNCHANGED <<settingVars, codecVars>>

(* --------------------------- exitOnce (sync.Once) --------------------- *)
\* Once.Do(f) runs f: done is not set and no other caller is inside Do
OnceRunsUnlatched(done, m) == TRUE
OnceRuns(done, m) == ~done /\ m = Free
\* Once.Do(f) returns without running f: done is set. A caller for which
\* neither holds is blocked on the Once mutex until the running f returns.
OnceSkips(done, m) == done

\* the body of onExitCb begins in goroutine c (apps.go:218-219)
BeginExit(c) ==
  /\ onceM' = c
  /\ exitStarts' = exitStarts + 1
  /\ exitPc' = "stopVM"
  /\ UNCHANGED onceDone

(* ---------------------- health-check worker (webrtc.go:227-244) ------- *)
\* select default branch: lock, count one more missed check, and either
\* detect expiry (the lock stays held) or unlock and go to sleep
WorkerTick ==
  /\ hcPc = "select" /\ exitPc # "stopClientParked" /\ ~lockHeld
  /\ missed' = missed + 1
  /\ IF missed + 1 = MaxMissedHealthCheck
     THEN hcPc' = "do" /\ lockHeld' = TRUE
     ELSE hcPc' = "sleep" /\ UNCHANGED lockHeld
  /\ UNCHANGED <<hmBlocked, silent, partial, hcLeft, keepAlive>>
  /\ UNCHANGED <<sessVars, resVars, onceVars, exitVars, iceVars, inVars>>
  /\ UNCHANGED extVars

\* time.Sleep(2 * time.Second) returns
WorkerWake ==
  /\ hcPc = "sleep"
  /\ hcPc' = "select"
  /\ IF partial THEN partial' = FALSE /\ UNCHANGED silent
                ELSE silent' = silent + 1 /\ UNCHANGED partial
  /\ UNCHANGED <<missed, lockHeld, hmBlocked, hcLeft, keepAlive>>
  /\ UNCHANGED <<sessVars, resVars, onceVars, exitVars, iceVars, inVars>>
  /\ UNCHANGED extVars

\* w.exitOnce.Do(exitCb) in the worker (webrtc.go:237); when Do returns
\* without running, the worker returns with the lock still held
WorkerDo ==
  /\ hcPc = "do"
  /\ \/ /\ OnceRuns(onceDone, onceM)
        /\ BeginExit(Worker)
        /\ hcPc' = "exit"
     \/ /\ ~OnceRuns(onceDone, onceM) /\ OnceSkips(onceDone, onceM)
        /\ hcPc' = "returned"
        /\ UNCHANGED <<onceVars, exitPc>>
  /\ UNCHANGED <<missed, lockHeld, hmBlocked, silent, partial, hcLeft, keepAlive>>
  /\ UNCHANGED <<vmStops, connClosed, stopClientReturned>>
  /\ UNCHANGED <<sessVars, resVars, iceVars, inVars>>
  /\ UNCHANGED extVars

\* healthTrack.OnMessage (webrtc.go:246-250)
HealthMessage ==
  /\ hcPc # "none" /\ ~connClosed /\ ~hmBlocked
  /\ keepAlive \/ hcLeft > 0
  /\ hcLeft' = IF keepAlive THEN hcLeft ELSE hcLeft - 1
  /\ IF lockHeld
     THEN hmBlocked' = TRUE /\ UNCHANGED <<missed, silent, partial>>
     ELSE /\ missed' = 0
          /\ silent' = 0
          /\ partial' = (hcPc = "sleep")
          /\ UNCHANGED hmBlocked
  /\ UNCHANGED <<hcPc, lockHeld, keepAlive>>
  /\ UNCHANGED <<sessVars, resVars, onceVars, exitVars, iceVars, inVars>>
  /\ UNCHANGED extVars

(* ------------- OnICEConnectionStateChange (webrtc.go:156-166) --------- *)
IcePc(i) == IF i \in 1..Len(ice) THEN ice[i].pc ELSE "none"

\* startStreaming: one goroutine ranging over imageChannel and one over
\* audioChannel, each waiting to receive (webrtc.go:298-314)
NewDrains ==
  <<[q |-> "video", pc |-> "recv", pkt |-> 0],
    [q |-> "audio", pc |-> "recv", pkt |-> 0]>>

\* the library reports a state: Connected starts the drains, a terminal
\* state goes on to exitOnce.Do(exitCb)
IceStateChange ==
  /\ offerSent /\ Len(ice) < MaxIceEvents
  /\ \E st \in IceStates :
       /\ ice' = Append(ice, [state |-> st,
                              pc |-> IF st \in IceTerminal THEN "do" ELSE "returned"])
       /\ streams' = IF st = "Connected" THEN streams + 1 ELSE streams
       /\ drains' = IF st = "Connected" THEN drains \o NewDrains ELSE drains
  /\ UNCHANGED <<sessVars, resVars, hcVars, onceVars, exitVars, inVars>>
  /\ UNCHANGED <<mediaQ, produced, track>>
  /\ UNCHANGED <<portVars, wireVars, startVars, settingVars, codecVars>>

\* w.exitOnce.Do(exitCb) in the ICE callback (webrtc.go:164)
IceDo(i) ==
  /\ IcePc(i) = "do"
  /\ \/ /\ OnceRuns(onceDone, onceM)
        /\ BeginExit(i)
        /\ ice' = [ice EXCEPT ![i].pc = "exit"]
     \/ /\ ~OnceRuns(onceDone, onceM) /\ OnceSkips(onceDone, onceM)
        /\ ice' = [ice EXCEPT ![i].pc = "returned"]
        /\ UNCHANGED <<onceVars, exitPc>>
  /\ UNCHANGED <<streams, vmStops, connClosed, stopClientReturned>>
  /\ UNCHANGED <<sessVars, resVars, hcVars, inVars>>
  /\ UNCHANGED extVars

(* ------------------------ onExitCb (apps.go:218-238) ------------------ *)
\* the statements of onExitCb in program order; StopClient is three steps:
\* its three Close calls, the send on w.closed becoming pending, and the
\* worker receiving it
ExitStepsQueuesFirst ==
  <<"stopVM", "stopClientClose", "stopClientSend", "stopClientParked",
    "closeVideoStream", "closeAudioStream", "closeInputStream",
    "closeAudioListener", "closeVideoListener", "closeWineListener",
    "relayerClose", "return">>
ExitSteps ==
  <<"stopVM", "stopClientClose", "stopClientSend", "stopClientParked",
    "closeAudioListener", "closeVideoListener", "closeWineListener",
    "closeVideoStream", "closeAudioStream", "closeInputStream",
    "relayerClose", "return">>

ExitIndex(s) == CHOOSE i \in 1..Len(ExitSteps) : ExitSteps[i] = s

AfterExit(s) == ExitSteps[ExitIndex(s) + 1]

\* stopVM(id): the error is only logged (apps.go:221-223)
ExitStopVM ==
  /\ exitPc = "stopVM"
  /\ vmStops' = vmStops + 1
  /\ exitPc' = AfterExit("stopVM")
  /\ UNCHANGED <<connClosed, stopClientReturned>>
  /\ UNCHANGED <<sessVars, resVars, hcVars, onceVars, iceVars, inVars>>
  /\ UNCHANGED extVars

\* StopClient: w.conn.Close(), w.inputTrack.Close(), w.healthTrack.Close()
StopClientClose ==
  /\ exitPc = "stopClientClose"
  /\ connClosed' = TRUE
  /\ exitPc' = AfterExit("stopClientClose")
  /\ UNCHANGED <<vmStops, stopClientReturned>>
  /\ UNCHANGED <<sessVars, resVars, hcVars, onceVars, iceVars, inVars>>
  /\ UNCHANGED extVars

\* StopClient: w.closed <- struct{}{} on the unbuffered channel; the sender
\* waits for a receiver (webrtc.go:295)
StopClientSend ==
  /\ exitPc = "stopClientSend"
  /\ exitPc' = AfterExit("stopClientSend")
  /\ UNCHANGED <<vmStops, connClosed, stopClientReturned>>
  /\ UNCHANGED <<sessVars, resVars, hcVars, onceVars, iceVars, inVars>>
  /\ UNCHANGED extVars

\* the worker's select takes `case <-w.closed: return` (webrtc.go:230-231),
\* which lets the pending send, and so StopClient, return
WorkerRecvClosed ==
  /\ hcPc = "select" /\ exitPc = "stopClientParked"
  /\ hcPc' = "returned"
  /\ stopClientReturned' = TRUE
  /\ exitPc' = AfterExit("stopClientParked")
  /\ UNCHANGED <<missed, lockHeld, hmBlocked, silent, partial, hcLeft, keepAlive>>
  /\ UNCHANGED <<vmStops, connClosed>>
  /\ UNCHANGED <<sessVars, resVars, onceVars, iceVars, inVars>>
  /\ UNCHANGED extVars

\* _ = audioListener.Close() etc. (apps.go:229-231)
CloseListener(step, k) ==
  /\ exitPc = step
  /\ sock' = [sock EXCEPT ![k] = "closed"]
  /\ exitPc' = AfterExit(step)
  /\ UNCHANGED <<queueClosed, relayer>>
  /\ UNCHANGED <<vmStops, connClosed, stopClientReturned>>
  /\ UNCHANGED <<sessVars, hcVars, onceVars, iceVars, inVars>>
  /\ UNCHANGED extVars

CloseAudioListener == CloseListener("closeAudioListener", "audio")
CloseVideoListener == CloseListener("closeVideoListener", "video")
CloseWineListener  == CloseListener("closeWineListener", "wine")

\* close(videoStream), close(audioStream) (apps.go:233-234)
CloseStream(step, q) ==
  /\ exitPc = step
  /\ queueClosed' = [queueClosed EXCEPT ![q] = TRUE]
  /\ exitPc' = AfterExit(step)
  /\ UNCHANGED <<sock, relayer>>
  /\ UNCHANGED <<vmStops, connClosed, stopClientReturned>>
  /\ UNCHANGED <<sessVars, hcVars, onceVars, iceVars>>
  /\ UNCHANGED extVars

CloseVideoStream == CloseStream("closeVideoStream", "video") /\ UNCHANGED inVars
CloseAudioStream == CloseStream("closeAudioStream", "audio") /\ UNCHANGED inVars

\* close(inputStream) (apps.go:235): a handler whose send is pending on the
\* full channel panics with "send on closed channel"
CloseInputStream ==
  /\ CloseStream("closeInputStream", "input")
  /\ inputPc' = IF inputPc = "send" /\ Len(inputStream) = QueueCap
                THEN "panic" ELSE inputPc
  /\ UNCHANGED inputStream

\* relayer.Close() (apps.go:237)
RelayerClose ==
  /\ exitPc = "relayerClose"
  /\ relayer' = "closed"
  /\ exitPc' = AfterExit("relayerClose")
  /\ UNCHANGED <<sock, queueClosed>>
  /\ UNCHANGED <<vmStops, connClosed, stopClientReturned>>
  /\ UNCHANGED <<sessVars, hcVars, onceVars, iceVars, inVars>>
  /\ UNCHANGED extVars

\* onExitCb returns: Once stores done, unlocks, and Do returns to its caller
ExitReturn ==
  /\ exitPc = "return"
  /\ exitPc' = "done"
  /\ onceDone' = TRUE
  /\ onceM' = Free
  /\ IF onceM = Worker
     THEN hcPc' = "returned" /\ UNCHANGED ice
     ELSE ice' = [ice EXCEPT ![onceM].pc = "returned"] /\ UNCHANGED hcPc
  /\ UNCHANGED <<missed, lockHeld, hmBlocked, silent, partial, hcLeft, keepAlive>>
  /\ UNCHANGED <<exitStarts, streams, vmStops, connClosed, stopClientReturned>>
  /\ UNCHANGED <<sessVars, resVars, inVars>>
  /\ UNCHANGED extVars

(* ----------------- drain goroutines (webrtc.go:298-314) ---------------- *)
DrainPc(d) == IF d \in 1..Len(drains) THEN drains[d].pc ELSE "none"

\* `for packet := range channel`: take the next packet; with the channel
\* closed and empty the loop ends and the goroutine exits; with it open and
\* empty the goroutine waits
DrainRecv(d) ==
  /\ DrainPc(d) = "recv"
  /\ LET q == drains[d].q IN
       \/ /\ mediaQ[q] # <<>>
          /\ drains' = [drains EXCEPT ![d].pc = "write", ![d].pkt = Head(mediaQ[q])]
          /\ mediaQ' = [mediaQ EXCEPT ![q] = Tail(mediaQ[q])]
       \/ /\ mediaQ[q] = <<>> /\ queueClosed[q]
          /\ drains' = [drains EXCEPT ![d].pc = "exited"]
          /\ UNCHANGED mediaQ
  /\ UNCHANGED <<produced, track>>
  /\ UNCHANGED <<sessVars, resVars, hcVars, onceVars, exitVars, iceVars, inVars>>
  /\ UNCHANGED <<portVars, wireVars, startVars, settingVars, codecVars>>

\* videoTrack.WriteRTP(packet) / opusTrack.WriteRTP(packet): an error is
\* logged and the loop goes on
DrainWrite(d) ==
  /\ DrainPc(d) = "write"
  /\ LET q == drains[d].q IN
       track' = [track EXCEPT ![q] = Append(track[q], drains[d].pkt)]
  /\ \E ok \in BOOLEAN :
       drains' = [drains EXCEPT ![d].pc = "recv", ![d].pkt = 0]
  /\ UNCHANGED <<mediaQ, produced>>
  /\ UNCHANGED <<sessVars, resVars, hcVars, onceVars, exitVars, iceVars, inVars>>
  /\ UNCHANGED <<portVars, wireVars, startVars, settingVars, codecVars>>

\* a relayer reader got a datagram on its open socket and enqueues the RTP
\* packet, or drops it when the queue is full
MediaPacket ==
  /\ relayer = "started" /\ produced < MaxPackets
  /\ \E q \in Media :
       /\ sock[q] = "open" /\ ~queueClosed[q]
       /\ mediaQ' = [mediaQ EXCEPT ![q] =
                       IF Len(mediaQ[q]) < QueueCap
                       THEN Append(mediaQ[q], [q |-> q, n |-> produced + 1])
                       ELSE mediaQ[q]]
  /\ produced' = produced + 1
  /\ UNCHANGED <<drains, track>>
  /\ UNCHANGED <<sessVars, resVars, hcVars, onceVars, exitVars, iceVars, inVars>>
  /\ UNCHANGED <<portVars, wireVars, startVars, settingVars, codecVars>>

DrainNext ==
  \E d \in 1..(2 * MaxIceEvents) : DrainRecv(d) \/ DrainWrite(d)

WorkerNext == WorkerTick \/ WorkerWake \/ WorkerDo \/ WorkerRecvClosed

IceNext == \E i \in 1..MaxIceEvents : IceDo(i)

ExitNext ==
  \/ ExitStopVM \/ StopClientClose \/ StopClientSend
  \/ CloseAudioListener \/ CloseVideoListener \/ CloseWineListener
  \/ CloseVideoStream \/ CloseAudioStream \/ CloseInputStream
  \/ RelayerClose \/ ExitReturn

(* ---------------- app-input handler (webrtc.go:205-213) --------------- *)
\* inputTrack.OnMessage: a message that does not parse is logged and the
\* handler returns; otherwise the handler goes on to `w.eventChannel <- &msg`
InputMessage ==
  /\ offerSent /\ ~connClosed /\ inputPc = "idle"
  /\ \E ev \in InputEvents, parsed \in BOOLEAN :
       inputPc' = IF parsed THEN "send" ELSE "idle"
  /\ UNCHANGED inputStream
  /\ UNCHANGED <<sessVars, resVars, hcVars, onceVars, exitVars, iceVars>>
  /\ UNCHANGED extVars

\* w.eventChannel <- &msg: a send on a closed channel panics; a send on a
\* full channel waits (the action is not enabled); otherwise the event is
\* appended and the handler returns
InputSend ==
  /\ inputPc = "send"
  /\ \/ /\ queueClosed["input"]
        /\ inputPc' = "panic"
        /\ UNCHANGED inputStream
     \/ /\ ~queueClosed["input"]
        /\ Len(inputStream) < QueueCap
        /\ \E ev \in InputEvents : inputStream' = Append(inputStream, ev)
        /\ inputPc' = "idle"
  /\ UNCHANGED <<sessVars, resVars, hcVars, onceVars, exitVars, iceVars>>
  /\ UNCHANGED extVars

\* the relayer's input writer takes the next event off the input queue
InputWriter ==
  /\ relayer = "started" /\ Len(inputStream) > 0
  /\ inputStream' = Tail(inputStream)
  /\ UNCHANGED inputPc
  /\ UNCHANGED <<sessVars, resVars, hcVars, onceVars, exitVars, iceVars>>
  /\ UNCHANGED extVars

InputNext == InputMessage \/ InputSend \/ InputWriter

(* --------------------------- specifications --------------------------- *)
\* one signaling connection and its session; the peer sends no input events
Next ==
  \/ StartNext \/ WorkerNext \/ IceNext \/ ExitNext
  \/ IceStateChange \/ HealthMessage

Spec == Init /\ [][Next]_vars

\* every goroutine that can take a step eventually takes one; the peer and
\* the library (START, signaling close, ICE states, messages) are not forced
Fairness ==
  /\ WF_vars(VideoListen \/ VideoPort \/ AudioListen \/ AudioPort
             \/ WineListen \/ WinePort \/ RelayerStart \/ StartVM
             \/ NewWebRTC \/ StartClient \/ CreateOffer \/ SendOffer)
  /\ WF_vars(WorkerNext)
  /\ WF_vars(ExitNext)
  /\ \A i \in 1..MaxIceEvents : WF_vars(IceDo(i))

\* the peer goes silent after at most MaxHealthMsgs health-check messages
FairSpec == Init /\ [][Next]_vars /\ Fairness

\* the peer never stops sending health-check messages
InitAlive == InitCommon /\ keepAlive = TRUE
AliveSpec == InitAlive /\ [][Next]_vars /\ Fairness

\* a session whose START succeeded (the state Spec reaches when SendOffer
\* returns nil), with a peer that sends input events; a panic ends the process
InitInput ==
  /\ InitExt
  /\ ssPc = "done" /\ failedAt = "none"
  /\ sock = [k \in Kinds |-> "open"]
  /\ queueClosed = [q \in Queues |-> FALSE]
  /\ relayer = "started"
  /\ vmStarted = TRUE /\ vmStops = 0
  /\ webrtcConn = "set" /\ offerSent = TRUE /\ sigClosed = FALSE
  /\ hcPc = "select" /\ missed = 0 /\ lockHeld = FALSE /\ hmBlocked = FALSE
  /\ silent = 0 /\ partial = FALSE
  /\ hcLeft = 0 /\ keepAlive = FALSE
  /\ onceM = Free /\ onceDone = FALSE /\ exitStarts = 0
  /\ exitPc = "idle" /\ connClosed = FALSE /\ stopClientReturned = FALSE
  /\ ice = <<>> /\ streams = 0
  /\ inputStream = <<>> /\ inputPc = "idle"

NextInput ==
  /\ inputPc # "panic"
  /\ \/ InputNext \/ WorkerNext \/ IceNext \/ ExitNext \/ IceStateChange

InputSpec == InitInput /\ [][NextInput]_vars

\* an established session whose sandbox sends RTP packets
NextDrain ==
  \/ WorkerNext \/ IceNext \/ ExitNext \/ IceStateChange
  \/ DrainNext \/ MediaPacket

\* every drain goroutine that can take a step eventually takes one
DrainFairness ==
  \A d \in 1..(2 * MaxIceEvents) : WF_vars(DrainRecv(d) \/ DrainWrite(d))

DrainSpec == InitInput /\ [][NextDrain]_vars /\ Fairness /\ DrainFairness

\* the signaling goroutine and the library's candidate callback: any
\* sequence of START, SDP, ICE and other frames on one connection
NextSig ==
  \/ StartNext
  \/ RecvSDP \/ RecvICE \/ RecvOther \/ RecvStartAgain
  \/ LocalCandidate

SigSpec == Init /\ [][NextSig]_vars

(* ------------------------------ properties ---------------------------- *)
Expired == hcPc \in {"do", "exit"} \/ (hcPc = "returned" /\ lockHeld)

IceIn(pcs) == \E i \in 1..Len(ice) : ice[i].state \in IceTerminal /\ ice[i].pc \in pcs

AllSocketsClosed == \A k \in Kinds : sock[k] = "closed"
AllQueuesClosed == \A q \in Queues : queueClosed[q]

TeardownComplete ==
  /\ exitStarts = 1 /\ exitPc = "done"
  /\ vmStops = 1 /\ stopClientReturned
  /\ AllSocketsClosed /\ AllQueuesClosed /\ relayer = "closed"

\* C1: in every interleaving of ICE state changes and worker ticks the body
\* of the exit callback begins at most once.
ExitAtMostOnce == exitStarts <= 1

\* C1 witness: two terminal ICE callbacks and an expired worker all called
\* exitOnce.Do, and the body began once.
ExitLatchContended ==
  /\ exitStarts = 1
  /\ Len(ice) = 2 /\ ice[1].state \in IceTerminal /\ ice[2].state \in IceTerminal
  /\ ice[1].pc # "do" /\ ice[2].pc = "do"
  /\ hcPc = "do"

\* C2: when the health-check channel of a started session stayed silent
\* and the worker reports expiry, the teardown runs to completion: exit
\* callback once, stopVM, StopClient returned, the three sockets, the three
\* queues and the relayer closed.
ExpiryCompletesTeardown ==
  (ssPc = "done" /\ hcLeft = MaxHealthMsgs /\ hcPc = "exit") ~> TeardownComplete

\* C3: when a terminal ICE callback and the expired worker are both at the
\* exit latch, the callback body runs once and finishes and nobody stays
\* blocked.
DoubleTerminalFinishes ==
  (Expired /\ IceIn({"do", "exit"}))
    ~> (/\ exitStarts = 1 /\ exitPc = "done" /\ stopClientReturned
        /\ hcPc = "returned" /\ ~IceIn({"do", "exit"}))

\* C4: teardown order: stopVM, then StopClient, then the three sockets, then
\* the three queues, then the relayer; each begins after the previous returned.
TeardownOrder ==
  /\ connClosed => vmStops = 1
  /\ (\E k \in Kinds : sock[k] = "closed") => stopClientReturned
  /\ (\E q \in Queues : queueClosed[q]) => (stopClientReturned /\ AllSocketsClosed)
  /\ relayer = "closed" => AllQueuesClosed

\* C4 witness: a teardown that ran through all five stages.
TeardownRan == relayer = "closed" /\ AllQueuesClosed /\ AllSocketsClosed /\ vmStops = 1

\* C5: stopVM is invoked for the session iff startVM succeeded for it: never
\* without a successful startVM, and eventually after every successful one.
VmStoppedIffStarted ==
  /\ [](vmStops > 0 => vmStarted)
  /\ (vmStarted ~> vmStops > 0)

\* C6: when startSession fails at an allocation or launch step, on return
\* every allocated socket and a started relayer are closed and the exit
\* callback has not fired.
AllocSteps ==
  {"videoListen", "videoPort", "audioListen", "audioPort", "wineListen",
   "winePort", "relayerStart", "startVM"}

FailedStartReleases ==
  (ssPc = "failed" /\ failedAt \in AllocSteps)
    => (/\ \A k \in Kinds : sock[k] # "open"
        /\ relayer # "started"
        /\ exitStarts = 0)

\* C7: a signaling close on a session that completed START leads to the exit
\* callback, even while the peer stays connected and keeps sending
\* health-check messages.
SignalingCloseTearsDown == (sigClosed /\ ssPc = "done") ~> (exitStarts > 0)

\* C8 as stated: expiry is detected exactly when five full 2-second
\* intervals have passed without a message.
ExpiryAfterFiveIntervals ==
  /\ Expired => silent = 5
  /\ hcPc = "sleep" => silent < 5

\* C8 amended: expiry is detected exactly when the counter reaches 5, the
\* fifth consecutive increment without a message; the worker increments
\* before it sleeps, so four full intervals have passed then, and the worker
\* never begins a fifth silent sleep.
ExpiryAtFifthTick ==
  /\ Expired <=> missed = 5
  /\ Expired => silent = 4
  /\ hcPc = "sleep" => (missed < 5 /\ silent < 4)

\* C8 witness: expiry detected after a message had reset the counter.
ExpiredAfterReset == hcPc = "do" /\ hcLeft < MaxHealthMsgs /\ exitStarts = 0

\* C9: with 100 events in the input queue the app-input handler drops the
\* event and returns; it is never suspended waiting for queue space.
InputNeverBlocks ==
  ~(inputPc = "send" /\ Len(inputStream) = QueueCap /\ ~queueClosed["input"])

\* C10: no send on the input queue happens at or after its close.
NoSendOnClosedInput == inputPc # "panic"

\* C11: after a message whose SetRemoteSDP or AddCandidate failed, the
\* session continues: a later SDP message is still dispatched to
\* SetRemoteSDP and a later ICE message to AddCandidate of the same bridge.
ProtocolErrorKeepsSession ==
  protoErr =>
    /\ lastMsg = "SDP" => lastDispatch = "SetRemoteSDP"
    /\ lastMsg = "ICE" => lastDispatch = "AddCandidate"

\* C12: each of the video and audio queues has at most one drain goroutine
\* for its lifetime, whatever ICE states are reported and how often.
DrainsOf(q) == {d \in 1..Len(drains) : drains[d].q = q}

OneDrainPerQueue == \A q \in Media : Cardinality(DrainsOf(q)) <= 1

(* ------------------ NewWebRTC and the process settings ---------------- *)
\* everything but the settings: NewWebRTC touches none of it
sessionState ==
  <<sessVars, resVars, hcVars, onceVars, exitVars, iceVars, inVars,
    portVars, wireVars, startVars, drainVars, codecVars>>

UsesPortRange(conf) == conf.Min > 0 /\ conf.Max > 0

\* the SettingEngine the initializer builds from a Config when nothing in
\* it fails (webrtc.go:69-89)
SettingsOf(conf) ==
  [range |-> IF UsesPortRange(conf) THEN <<conf.Min, conf.Max>> ELSE <<0, 0>>,
   mux   |-> IF ~UsesPortRange(conf) /\ conf.SinglePort > 0
             THEN conf.SinglePort ELSE 0,
   nat   |-> conf.IceIpMap]

\* SetEphemeralUDPPortRange rejects a range whose maximum is below its
\* minimum
PortRangeErr(conf) == UsesPortRange(conf) /\ conf.Max < conf.Min

\* the initializer can reach panic(err): a rejected range (webrtc.go:72-74)
\* or a failed bind of the single port (webrtc.go:76-79)
CanPanic(conf) ==
  \/ PortRangeErr(conf)
  \/ ~UsesPortRange(conf) /\ conf.SinglePort > 0

\* the initializer must panic
MustPanic(conf) == PortRangeErr(conf)

\* webrtc.go:55-66: a call begins with its Config; RegisterDefaultCodecs
\* may fail, and so may RegisterDefaultInterceptors when it is run
RegisterCodecs(c) ==
  /\ nwPc[c] = "idle"
  /\ \E conf \in Configs :
       /\ nwConf' = [nwConf EXCEPT ![c] = conf]
       /\ \/ nwPc' = [nwPc EXCEPT ![c] = "do"]
          \/ nwPc' = [nwPc EXCEPT ![c] = "err"]
  /\ UNCHANGED <<nwUsed, settings, settingM, settingDone, firstConf>>
  /\ UNCHANGED sessionState

\* settingOnce.Do (webrtc.go:68): the first caller runs the initializer,
\* a caller that finds it done skips it, a caller that finds it running
\* waits
SettingOnceDo(c) ==
  /\ nwPc[c] = "do"
  /\ settingM = 0
  /\ IF settingDone
     THEN /\ nwPc' = [nwPc EXCEPT ![c] = "api"]
          /\ UNCHANGED <<settingM, firstConf>>
     ELSE /\ nwPc' = [nwPc EXCEPT ![c] = "init"]
          /\ settingM' = c
          /\ firstConf' = nwConf[c]
  /\ UNCHANGED <<nwConf, nwUsed, settings, settingDone>>
  /\ UNCHANGED sessionState

\* the initializer assigns the global (webrtc.go:69-89) and Do marks the
\* Once done
SettingInit(c) ==
  /\ nwPc[c] = "init"
  /\ ~MustPanic(nwConf[c])
  /\ settings' = SettingsOf(nwConf[c])
  /\ settingDone' = TRUE /\ settingM' = 0
  /\ nwPc' = [nwPc EXCEPT ![c] = "api"]
  /\ UNCHANGED <<nwConf, nwUsed, firstConf>>
  /\ UNCHANGED sessionState

\* the initializer panics (webrtc.go:73, 78) before it assigns the global:
\* sync.Once still marks itself done, and the panic unwinds the handler's
\* goroutine
SettingPanic(c) ==
  /\ nwPc[c] = "init"
  /\ CanPanic(nwConf[c])
  /\ settingDone' = TRUE /\ settingM' = 0
  /\ nwPc' = [nwPc EXCEPT ![c] = "panic"]
  /\ UNCHANGED <<nwConf, nwUsed, settings, firstConf>>
  /\ UNCHANGED sessionState

\* webrtc.NewAPI(... WithSettingEngine(settings)) (webrtc.go:92-96)
NewAPI(c) ==
  /\ nwPc[c] = "api"
  /\ nwUsed' = [nwUsed EXCEPT ![c] = settings]
  /\ nwPc' = [nwPc EXCEPT ![c] = "conn"]
  /\ UNCHANGED <<nwConf, settings, settingM, settingDone, firstConf>>
  /\ UNCHANGED sessionState

\* api.NewPeerConnection (webrtc.go:98-105)
NewPeerConnection(c) ==
  /\ nwPc[c] = "conn"
  /\ \/ nwPc' = [nwPc EXCEPT ![c] = "done"]
     \/ nwPc' = [nwPc EXCEPT ![c] = "err"]
  /\ UNCHANGED <<nwConf, nwUsed, settings, settingM, settingDone, firstConf>>
  /\ UNCHANGED sessionState

NextSetting ==
  \E c \in 1..MaxCalls :
    \/ RegisterCodecs(c)
    \/ SettingOnceDo(c)
    \/ SettingInit(c)
    \/ SettingPanic(c)
    \/ NewAPI(c)
    \/ NewPeerConnection(c)

SettingSpec == Init /\ [][NextSetting]_vars

\* C14: the process-wide settings are set once: they are computed from the
\* Config of the first NewWebRTC call (the first to reach settingOnce.Do),
\* never change afterwards, and every call hands those settings to its
\* session.
SettingsSetOnce ==
  /\ [][settingDone => settings' = settings]_vars
  /\ [](settingDone => settings = SettingsOf(firstConf))
  /\ [](\A c \in 1..MaxCalls :
          nwUsed[c] # NoSettings => nwUsed[c] = SettingsOf(firstConf))

(* --------------------------- verbalCodecToMime ------------------------ *)
\* the characters codec names are spelled with
CodecChars == {"h", "H", "2", "6", "4", "v", "p", "x"}

\* the strings up to MaxCodecLen characters, the empty string included
CodecNames == UNION {[1..n -> CodecChars] : n \in 0..MaxCodecLen}

H264 == <<"h", "2", "6", "4">>
VPX == <<"v", "p", "x">>

\* webrtc.MimeTypeH264 and webrtc.MimeTypeVP8
MimeTypeH264 == "video/H264"
MimeTypeVP8 == "video/VP8"

\* webrtc.go:316-325
verbalCodecToMimeDefaultH264(vCodec_) ==
  CASE vCodec_ = H264 -> MimeTypeH264
    [] vCodec_ = VPX -> MimeTypeVP8
    [] OTHER -> MimeTypeH264

verbalCodecToMime(vCodec_) ==
  CASE vCodec_ = H264 -> MimeTypeH264
    [] vCodec_ = VPX -> MimeTypeVP8
    [] OTHER -> MimeTypeVP8

CodecCall ==
  /\ mime = "none"
  /\ mime' = verbalCodecToMime(vCodec)
  /\ UNCHANGED vCodec
  /\ UNCHANGED <<sessVars, resVars, hcVars, onceVars, exitVars, iceVars, inVars>>
  /\ UNCHANGED <<portVars, wireVars, startVars, drainVars, settingVars>>

\* the caller drops the result
CodecReturn ==
  /\ mime # "none"
  /\ mime' = "none"
  /\ UNCHANGED vCodec
  /\ UNCHANGED <<sessVars, resVars, hcVars, onceVars, exitVars, iceVars, inVars>>
  /\ UNCHANGED <<portVars, wireVars, startVars, drainVars, settingVars>>

InitCodec == \E v \in CodecNames : InitCommonFor(v) /\ keepAlive = FALSE

NextCodec == CodecCall \/ CodecReturn

CodecSpec == InitCodec /\ [][NextCodec]_vars

\* C15: verbalCodecToMime is a pure total mapping: for every string it
\* returns a result and changes nothing else; the result is video/H264
\* exactly when the name is "h264" and video/VP8 for "vpx" and every other
\* string, the empty string included.
CodecMapping ==
  /\ [](mime = "none" => ENABLED CodecCall)
  /\ [](mime # "none" =>
          /\ mime \in {MimeTypeH264, MimeTypeVP8}
          /\ (mime = MimeTypeH264) <=> (vCodec = H264))
  /\ [][mime' # mime =>
          UNCHANGED <<vCodec, sessVars, resVars, hcVars, onceVars, exitVars,
                      iceVars, inVars, portVars, wireVars, startVars,
                      drainVars, settingVars>>]_vars

\* C15 witness: the call returned video/H264 for "h264"
CodecH264 == vCodec = H264 /\ mime = MimeTypeH264

\* the order of the steps of a START, as far as the state records it: the
\* relayer is started after the three sockets are bound and their ports
\* extracted; startVM gets the session id and those ports as video, audio,
\* input; StartClient comes after startVM; the offer after StartClient, and
\* it is the only SDP message sent
SdpSent == Cardinality({i \in 1..Len(wire) : wire[i] = "SDP"})

StartOrder ==
  /\ relayer # "none" =>
        \A k \in Kinds : sock[k] # "none" /\ port[k] # 0 /\ relayPort[k] = port[k]
  /\ vmArgs # <<>> =>
        /\ relayer # "none"
        /\ vmArgs = <<SessionId, port["video"], port["audio"], port["wine"]>>
  /\ hcPc # "none" => vmStarted
  /\ offerSent => hcPc # "none"
  /\ SdpSent = (IF offerSent THEN 1 ELSE 0)

\* the step on which sendOffer returns nil
OfferStep == ~offerSent /\ offerSent'

\* C13 as stated: on a START in which every step succeeds the steps happen
\* in order (sockets, relayer, startVM with id and the three ports,
\* bridge and StartClient, then exactly one SDP message), and when the offer
\* is sent the exit callback has not been invoked.
HappyStartOrder ==
  /\ []StartOrder
  /\ [][OfferStep => exitStarts' = 0]_vars

\* C13 amended: the same order; when the offer is sent the exit callback has
\* not been invoked unless the health-check worker, which StartClient
\* started before the offer was created, has already detected expiry.
HappyStartOrderUnlessExpired ==
  /\ []StartOrder
  /\ [][OfferStep => (exitStarts' = 0 \/ Expired')]_vars

\* C13 witness: a START that succeeded, with the offer on the wire and the
\* exit callback not invoked.
HappyStart ==
  /\ ssPc = "done" /\ offerSent /\ wire = <<"SDP">>
  /\ vmArgs = <<SessionId, port["video"], port["audio"], port["wine"]>>
  /\ port["video"] > port["audio"]
  /\ hcPc # "none" /\ exitStarts = 0

\* StopClient has been called and has not returned
InStopClient == exitPc \in {"stopClientClose", "stopClientSend", "stopClientParked"}

\* C16: after StopClient is invoked the health-check worker observes the
\* closed signal and exits, and StopClient returns, whether an ICE terminal
\* state or the health-check expiry started the teardown.
StopClientStopsWorker ==
  InStopClient ~> (stopClientReturned /\ hcPc = "returned")

\* what a track was given belongs to its queue and is in the order of
\* enqueueing (packet numbers increase), no packet twice
TrackFifo ==
  \A q \in Media :
    \A i \in 1..Len(track[q]) :
      /\ track[q][i].q = q
      /\ \A j \in (i + 1)..Len(track[q]) : track[q][i].n < track[q][j].n

\* a drain goroutine that has exited found its queue closed and empty
ExitedDrainsDrained ==
  \A d \in 1..Len(drains) :
    drains[d].pc = "exited" =>
      queueClosed[drains[d].q] /\ mediaQ[drains[d].q] = <<>>

AllDrainsExited == \A d \in 1..Len(drains) : drains[d].pc = "exited"

\* C17: a drain goroutine writes the packets of its own queue to its own
\* track in FIFO order, each at most once; it exits only when its queue is
\* closed and empty, and after a terminal event (the exit callback invoked)
\* every drain goroutine eventually exits.
DrainsFifoUntilClosed ==
  /\ []TrackFifo
  /\ []ExitedDrainsDrained
  /\ (exitStarts > 0) ~> AllDrainsExited

\* C18: the mutex of the missed-check counter is released on every path of
\* the worker: whenever the worker holds it, it releases it, and a
\* health-check handler waiting for it always gets it and returns, also
\* when the message arrives after expiry was detected.
HealthLockReleased ==
  /\ lockHeld ~> ~lockHeld
  /\ hmBlocked ~> ~hmBlocked

\* C19: at most one live session per signaling connection and session id:
\* while the session of an earlier START is live, a further START creates
\* no second set of sockets, relayer, sandbox and bridge, and never ends
\* with webrtcConn no longer pointing to the live session's bridge.
OneLiveSession ==
  ~(/\ prevLive
    /\ \/ \E k \in Kinds : sock[k] = "open"
       \/ relayer = "started"
       \/ vmStarted
       \/ ssPc \in {"done", "failed"})

\* C20: on the signaling connection every ICE candidate message is sent
\* after an SDP offer message: no candidate goes out before the offer.
OfferBeforeCandidates ==
  \A i \in 1..Len(wire) :
    wire[i] = "ICE" => \E j \in 1..(i - 1) : wire[j] = "SDP"
====
